---- MODULE Spec2Model ----
(***************************************************************************)
(* Model of beer/expfamilyprior.py: conjugate priors of the exponential    *)
(* family.  Tensors are finite sequences of integers; a tensor object      *)
(* carries its data and its gradient buffer (None until the first          *)
(* back-propagation).  Prior instances hold references to tensor objects,  *)
(* as the Python attributes do.                                            *)
(***************************************************************************)
EXTENDS Integers, Sequences, FiniteSets, TLC

VARIABLES tensors, inst, writes, last, call

vars == <<tensors, inst, writes, last, call>>

\* ------------------------------------------------------------- bounds
\* Length of the natural-parameter vectors of the Dirichlet instances.
Dim == 2
\* Entries of a natural-parameter vector range over 0..MaxVal.
MaxVal == 1
\* Number of tensor objects the heap can hold.
MaxTensors == 3
\* Number of in-place writes the caller makes to values a getter returned.
MaxWrites == 1
\* Longest flat vector handed to split_sufficient_statistics.
MaxLen == 13
\* Largest dim / ncomp of a family in the grouping specification.
MaxDim == 2
MaxComp == 2
\* Group elements are consecutive integers starting at a base in 0..MaxBase.
MaxBase == 1
\* Longest concentration vector and largest concentration (Dirichlet scenario).
MaxK == 3
MaxConc == 5
\* Normal-Gamma scenario: vectors of length 1..MaxNGDim, means in
\* -MaxNG..MaxNG.
MaxNGDim == 2
MaxNG == 1
\* _logdet: matrices of size 1..MaxN, incoming gradient entries in 0..MaxG,
\* at most MaxCalls calls on the same matrix.
MaxN == 2
MaxG == 1
MaxCalls == 2

None == "None"
\* A tensor whose .grad is None, an attribute holding None.
NoGrad == <<>>
NoTensor == 0

\* --------------------------------------------------- sequence helpers
RECURSIVE SumSeq(_)
SumSeq(s) == IF s = <<>> THEN 0 ELSE Head(s) + SumSeq(Tail(s))

RECURSIVE Flatten(_)
\* tensor.view(-1) of a matrix stored as a sequence of rows (row-major).
Flatten(m) == IF m = <<>> THEN <<>> ELSE Head(m) \o Flatten(Tail(m))

RECURSIVE Fact(_)
Fact(n) == IF n <= 1 THEN 1 ELSE n * Fact(n - 1)

Vectors(n, S) == [1..n -> S]

\* ------------------------------------------------ exact real values
\* torch.lgamma is evaluated on positive integers only, where
\* lgamma(n) = ln((n-1)!) = ln 1 + ln 2 + ... + ln(n-1).  A log value is kept
\* exactly, as the exponent of every prime in the number it is the logarithm
\* of: two log values are equal iff these functions are.
LogMax == IF MaxK * MaxConc > Dim * (MaxVal + 1)
          THEN MaxK * MaxConc ELSE Dim * (MaxVal + 1)

PrimeSet == {p \in 2..LogMax : \A d \in 2..(p - 1) : p % d # 0}

RECURSIVE PrimeExp(_, _)
PrimeExp(p, k) == IF k % p = 0 THEN 1 + PrimeExp(p, k \div p) ELSE 0

\* ln k
LogOf(k) == [p \in PrimeSet |-> PrimeExp(p, k)]

LogZero == [p \in PrimeSet |-> 0]

LogNeg(x) == [p \in PrimeSet |-> 0 - x[p]]

LogAdd(x, y) == [p \in PrimeSet |-> x[p] + y[p]]

RECURSIVE LogSum(_)
LogSum(s) == IF s = <<>> THEN LogZero ELSE LogAdd(Head(s), LogSum(Tail(s)))

RECURSIVE Lgamma(_)
Lgamma(n) == IF n <= 2 THEN LogZero ELSE LogAdd(LogOf(n - 1), Lgamma(n - 1))

\* Gradients are rationals; they are kept as integers scaled by GradScale,
\* a common multiple of every denominator that can occur.
GradScale == Fact(Dim * (MaxVal + 1))

\* GradScale * (1 + 1/2 + ... + 1/n)
RECURSIVE Harmonic(_)
Harmonic(n) == IF n <= 0 THEN 0 ELSE (GradScale \div n) + Harmonic(n - 1)

\* ---------------------------------------------------- DirichletPrior
\* DirichletPrior.__init__: natural_hparams = concentrations - 1
DirichletNatural(concentrations) ==
    [i \in DOMAIN concentrations |-> concentrations[i] - 1]

\* Mutant: the sum is taken before the 1 is added, lgamma(sum(eta) + 1).
DirichletLogNorm_SumThenAddOne(natural_hparams) ==
    LET plus1 == [i \in DOMAIN natural_hparams |-> natural_hparams[i] + 1]
    IN  LogAdd(LogNeg(Lgamma(SumSeq(natural_hparams) + 1)),
               LogSum([i \in DOMAIN plus1 |-> Lgamma(plus1[i])]))

\* DirichletPrior.log_norm:
\*   - lgamma((natural_hparams + 1).sum()) + lgamma(natural_hparams + 1).sum()
DirichletLogNorm(natural_hparams) ==
    LET plus1 == [i \in DOMAIN natural_hparams |-> natural_hparams[i] + 1]
    IN  LogAdd(LogNeg(Lgamma(SumSeq(plus1))),
               LogSum([i \in DOMAIN plus1 |-> Lgamma(plus1[i])]))

\* What ta.backward(log_norm(value)) adds to value.grad: the derivative of
\* DirichletLogNorm, digamma(eta_i + 1) - digamma(sum(eta + 1)), which for
\* integers is H(eta_i) - H(sum(eta + 1) - 1), H the harmonic numbers.
DirichletGrad(natural_hparams) ==
    LET plus1 == [i \in DOMAIN natural_hparams |-> natural_hparams[i] + 1]
    IN  [i \in DOMAIN natural_hparams |->
            Harmonic(natural_hparams[i]) - Harmonic(SumSeq(plus1) - 1)]

\* Tensor.zero_(): every element becomes 0, in place.
Zeroed(v) == [i \in DOMAIN v |-> 0]

\* ---------------------------------------------------- ExpFamilyPrior
Insts == {"p", "q"}

TensorIds == 1..Len(tensors)

DataValues == Vectors(Dim, 0..MaxVal)

NoCall == [stage |-> "idle"]

\* ta.backward(log_norm_value): the gradient is stored in value.grad when that
\* is None and accumulated into the existing buffer otherwise.
Backward(t) ==
    IF t.grad = NoGrad THEN DirichletGrad(t.data)
    ELSE [k \in DOMAIN t.data |-> t.grad[k] + DirichletGrad(t.data)[k]]

\* Mutant: back-propagation also succeeds from a vector that does not
\* require a gradient.
Setter_NoRequiresGrad(ts, ins, i, v) ==
    IF ts[v].grad # NoGrad
    THEN [tensors |-> [ts EXCEPT ![v].grad = Zeroed(ts[v].grad)],
          inst    |-> ins,
          status  |-> "TypeError"]
    ELSE [tensors |-> [ts EXCEPT ![v].grad = Backward(ts[v])],
          inst    |-> [ins EXCEPT ![i] = [constructed |-> TRUE,
                                          natural_hparams |-> v,
                                          expected_sufficient_statistics |-> v]],
          status  |-> "ok"]

\* The natural_hparams setter applied to tensor object v of heap ts for
\* instance i: the heap and the instance fields it leaves, and how it ended.
\* value.grad.zero_()() zeroes the buffer in place and then calls the tensor
\* zero_() returned, which raises TypeError before anything is assigned.
\* ta.backward(log_norm_value) raises RuntimeError when value does not require
\* a gradient: log_norm_value then has no graph to back-propagate through.
Setter(ts, ins, i, v) ==
    IF ts[v].grad # NoGrad
    THEN [tensors |-> [ts EXCEPT ![v].grad = Zeroed(ts[v].grad)],
          inst    |-> ins,
          status  |-> "TypeError"]
    ELSE IF ~ts[v].requires_grad
    THEN [tensors |-> ts, inst |-> ins, status |-> "RuntimeError"]
    ELSE [tensors |-> [ts EXCEPT ![v].grad = Backward(ts[v])],
          inst    |-> [ins EXCEPT ![i] = [constructed |-> TRUE,
                                          natural_hparams |-> v,
                                          expected_sufficient_statistics |-> v]],
          status  |-> "ok"]

\* The natural_hparams getter: self._natural_hparams.data
NaturalHparams(i) == tensors[inst[i].natural_hparams].data

\* The expected_sufficient_statistics getter:
\* self._expected_sufficient_statistics.data, the gradient buffer of the tensor
\* that was assigned.
ExpectedSufficientStatistics(i) ==
    tensors[inst[i].expected_sufficient_statistics].grad

Reported(i) ==
    IF inst[i].constructed
    THEN <<NaturalHparams(i), ExpectedSufficientStatistics(i)>>
    ELSE None

Init ==
    /\ tensors = <<>>
    /\ inst = [i \in Insts |-> [constructed |-> FALSE,
                                natural_hparams |-> NoTensor,
                                expected_sufficient_statistics |-> NoTensor]]
    /\ writes = 0
    /\ last = [op |-> "none", status |-> "ok", inst |-> None,
               arg |-> None, hadGrad |-> FALSE, value |-> None]
    /\ call = NoCall

\* The caller creates a vector: torch.tensor(d, requires_grad=True).
NewTensor(d) ==
    /\ Len(tensors) < MaxTensors
    /\ tensors' = Append(tensors, [data |-> d, grad |-> NoGrad,
                                 own |-> "caller",
                                 requires_grad |-> TRUE])
    /\ last' = [op |-> "new", status |-> "ok", inst |-> None, arg |-> None,
                hadGrad |-> FALSE, value |-> None]
    /\ UNCHANGED <<inst, writes, call>>

\* DirichletPrior(concentrations): a fresh tensor holding concentrations - 1
\* is handed to ExpFamilyPrior.__init__, which assigns it to natural_hparams.
Construct(i, concentrations) ==
    /\ ~inst[i].constructed
    /\ Len(tensors) < MaxTensors
    /\ LET v == Len(tensors) + 1
           ts == Append(tensors, [data |-> DirichletNatural(concentrations),
                                  grad |-> NoGrad, own |-> "prior",
                                  requires_grad |-> TRUE])
           r == Setter(ts, inst, i, v)
       IN  /\ tensors' = r.tensors
           /\ inst' = r.inst
           /\ last' = [op |-> "construct", status |-> r.status, inst |-> i,
                       arg |-> None, hadGrad |-> FALSE, value |-> None]
    /\ UNCHANGED <<writes, call>>

\* instance.natural_hparams = value, value a vector the caller created (the
\* vector a constructor builds is reachable through private attributes only).
SetNaturalHparams(i, v) ==
    /\ inst[i].constructed
    /\ v \in TensorIds
    /\ tensors[v].own = "caller"
    /\ LET r == Setter(tensors, inst, i, v)
       IN  /\ tensors' = r.tensors
           /\ inst' = r.inst
           /\ last' = [op |-> "set", status |-> r.status, inst |-> i,
                       arg |-> v, hadGrad |-> tensors[v].grad # NoGrad,
                       value |-> None]
    /\ UNCHANGED <<writes, call>>

\* i.natural_hparams = j.natural_hparams: the value assigned is what j's
\* getter returned, a new tensor object with j's data, no gradient and
\* requires_grad False.  It stays on the heap only if i now refers to it.
AssignReadBack(i, j) ==
    /\ inst[i].constructed
    /\ inst[j].constructed
    /\ LET v == Len(tensors) + 1
           ts == Append(tensors, [data |-> NaturalHparams(j), grad |-> NoGrad,
                                  own |-> "getter", requires_grad |-> FALSE])
           r == Setter(ts, inst, i, v)
       IN  /\ tensors' = IF r.inst[i].natural_hparams = v
                         THEN r.tensors
                         ELSE SubSeq(r.tensors, 1, Len(tensors))
           /\ inst' = r.inst
           /\ last' = [op |-> "set_read_back", status |-> r.status,
                       inst |-> i, arg |-> j, hadGrad |-> FALSE,
                       value |-> None]
    /\ UNCHANGED <<writes, call>>

\* The caller reads instance.natural_hparams.
GetNaturalHparams(i) ==
    /\ inst[i].constructed
    /\ last' = [op |-> "get_natural_hparams", status |-> "ok", inst |-> i,
                arg |-> None, hadGrad |-> FALSE, value |-> None]
    /\ UNCHANGED <<tensors, inst, writes, call>>

\* The caller reads instance.expected_sufficient_statistics.
GetExpectedSufficientStatistics(i) ==
    /\ inst[i].constructed
    /\ last' = [op |-> "get_expected_sufficient_statistics", status |-> "ok",
                inst |-> i, arg |-> None, hadGrad |-> FALSE, value |-> None]
    /\ UNCHANGED <<tensors, inst, writes, call>>

\* The caller writes x into element k of the value a getter of instance i
\* returned (instance.natural_hparams[k] = x, or the same on
\* expected_sufficient_statistics).  Tensor.data is a tensor that shares the
\* storage of the tensor it is taken from.
ModifyReturned(i, part, k, x) ==
    /\ inst[i].constructed
    /\ writes < MaxWrites
    /\ writes' = writes + 1
    /\ tensors' =
         IF part = "natural_hparams"
         THEN [tensors EXCEPT ![inst[i].natural_hparams].data[k] = x]
         ELSE [tensors EXCEPT
                 ![inst[i].expected_sufficient_statistics].grad[k] =
                     x * GradScale]
    /\ last' = [op |-> "modify_returned", status |-> "ok", inst |-> i,
                arg |-> None, hadGrad |-> FALSE, value |-> None]
    /\ UNCHANGED <<inst, call>>

\* ------------------------------------------------------------ kl_div
\* Attribute lookup on a constructed prior: the properties and methods the
\* class defines; any other name raises AttributeError.
GetAttr(i, name) ==
    CASE name = "natural_hparams" ->
            [kind |-> "tensor", val |-> NaturalHparams(i)]
      [] name = "expected_sufficient_statistics" ->
            [kind |-> "tensor", val |-> ExpectedSufficientStatistics(i)]
      [] name = "log_norm" -> [kind |-> "method", val |-> i]
      [] name = "split_sufficient_statistics" -> [kind |-> "method", val |-> i]
      [] OTHER -> [kind |-> "AttributeError", val |-> name]

Dot(a, b) == SumSeq([k \in DOMAIN a |-> a[k] * b[k]])

\* The real number l + r / GradScale, l a log value.
Real(l, r) == [ln |-> l, rat |-> r]

\* _bregman_divergence: f_val1 - f_val2 - grad_f_val2 @ (val1 - val2).
\* Subtracting two bound methods raises TypeError.
BregmanDivergence(f_val1, f_val2, grad_f_val2, val1, val2) ==
    IF f_val1.kind # "scalar" \/ f_val2.kind # "scalar"
    THEN [status |-> "TypeError", value |-> None]
    ELSE [status |-> "ok",
          value |-> Real(LogAdd(f_val1.val, LogNeg(f_val2.val)),
                         0 - Dot(grad_f_val2.val,
                                 [k \in DOMAIN val1.val |->
                                     val1.val[k] - val2.val[k]]))]

\* kl_div(model1, model2): the arguments are evaluated left to right, then
\* _bregman_divergence is called.
KlDiv(model1, model2) ==
    LET f_val1 == GetAttr(model2, "log_norm")
        f_val2 == GetAttr(model1, "log_norm")
        grad_f_val2 == GetAttr(model1, "expected_sufficient_statistics")
        val1 == GetAttr(model2, "natural_params")
        val2 == GetAttr(model1, "natural_params")
    IN  IF \E a \in {f_val1, f_val2, grad_f_val2, val1, val2} :
              a.kind = "AttributeError"
        THEN [status |-> "AttributeError", value |-> None]
        ELSE BregmanDivergence(f_val1, f_val2, grad_f_val2, val1, val2)

\* The caller evaluates kl_div(model1, model2).
CallKlDiv(model1, model2) ==
    /\ inst[model1].constructed
    /\ inst[model2].constructed
    /\ LET r == KlDiv(model1, model2)
       IN  last' = [op |-> "kl_div", status |-> r.status, inst |-> model1,
                    arg |-> model2, hadGrad |-> FALSE, value |-> r.value]
    /\ UNCHANGED <<tensors, inst, writes, call>>

\* ------------------------------------------- slicing and reshaping
\* Python's normalisation of a slice bound k for a sequence of length n.
PyIndex(n, k) ==
    LET j == IF k < 0 THEN n + k ELSE k
    IN  IF j < 0 THEN 0 ELSE IF j > n THEN n ELSE j

\* s[lo:hi]
PySlice(s, lo, hi) ==
    LET a == PyIndex(Len(s), lo)
        b == PyIndex(Len(s), hi)
    IN  IF b <= a THEN <<>> ELSE SubSeq(s, a + 1, b)

\* s[lo:]
PySliceFrom(s, lo) == PySlice(s, lo, Len(s))

\* s[:hi]
PySliceTo(s, hi) == PySlice(s, 0, hi)

\* tensor.view(r, c) of a 1-D tensor: r rows of c elements, row-major; it
\* raises when the tensor does not hold r * c elements.
View(s, r, c) ==
    IF Len(s) # r * c
    THEN [ok |-> FALSE, val |-> <<>>]
    ELSE [ok |-> TRUE,
          val |-> [i \in 1..r |-> [j \in 1..c |-> s[(i - 1) * c + j]]]]

\* tensor.view(r, -1): the second size is inferred; it raises when the number
\* of elements is not a multiple of r (or is 0, where it is ambiguous).
ViewInfer(s, r) ==
    IF Len(s) = 0 \/ Len(s) % r # 0
    THEN [ok |-> FALSE, val |-> <<>>]
    ELSE View(s, r, Len(s) \div r)

\* torch.cat of a list of 1-D tensors.
Cat(list) == Flatten(list)

Raised == [ok |-> FALSE, groups |-> <<>>]

Returned(g) == [ok |-> TRUE, groups |-> g]

\* ------------------------------------- split_sufficient_statistics
\* DirichletPrior.split_sufficient_statistics: return s_stats
DirichletSplit(s_stats) == Returned(s_stats)

\* NormalGammaPrior.split_sufficient_statistics: tuple(s_stats.view(4, -1))
NormalGammaSplit(s_stats) ==
    LET v == ViewInfer(s_stats, 4)
    IN  IF v.ok THEN Returned(v.val) ELSE Raised

\* JointNormalGammaPrior.split_sufficient_statistics
JointNormalGammaSplit(s_stats, dim, ncomp) ==
    LET hnp1 == PySliceTo(s_stats, dim)
        hnp2s == PySlice(s_stats, dim, dim + dim * ncomp)
        hnp3s == PySlice(s_stats, dim + dim * ncomp, dim + 2 * dim * ncomp)
        hnp4 == PySliceFrom(s_stats, dim + 2 * dim * ncomp)
        v2 == View(hnp2s, ncomp, dim)
        v3 == View(hnp3s, ncomp, dim)
    IN  IF v2.ok /\ v3.ok
        THEN Returned(<<hnp1, v2.val, v3.val, hnp4>>)
        ELSE Raised

\* NormalWishartPrior.split_sufficient_statistics; grp3, grp4 = s_stats[-2:]
\* unpacks a slice that must hold exactly two elements.
NormalWishartSplit(s_stats, dim) ==
    LET v1 == View(PySliceTo(s_stats, dim * dim), dim, dim)
        grp2 == PySlice(s_stats, dim * dim, -2)
        tail == PySliceFrom(s_stats, -2)
    IN  IF v1.ok /\ Len(tail) = 2
        THEN Returned(<<v1.val, grp2, tail[1], tail[2]>>)
        ELSE Raised

\* Mutant: the per-component group is viewed as dim x ncomp.
JointNormalWishartSplit_SwappedView(s_stats, dim, ncomp) ==
    LET v1 == View(PySliceTo(s_stats, dim * dim), dim, dim)
        v2 == View(PySlice(s_stats, dim * dim, 0 - (ncomp + 1)), dim, ncomp)
        grp3s == PySlice(s_stats, 0 - (ncomp + 1), -1)
    IN  IF v1.ok /\ v2.ok /\ Len(s_stats) >= 1
        THEN Returned(<<v1.val, v2.val, grp3s, s_stats[Len(s_stats)]>>)
        ELSE Raised

\* JointNormalWishartPrior.split_sufficient_statistics; s_stats[-1] raises on
\* an empty tensor.
JointNormalWishartSplit(s_stats, dim, ncomp) ==
    LET v1 == View(PySliceTo(s_stats, dim * dim), dim, dim)
        v2 == View(PySlice(s_stats, dim * dim, 0 - (ncomp + 1)), ncomp, dim)
        grp3s == PySlice(s_stats, 0 - (ncomp + 1), -1)
    IN  IF v1.ok /\ v2.ok /\ Len(s_stats) >= 1
        THEN Returned(<<v1.val, v2.val, grp3s, s_stats[Len(s_stats)]>>)
        ELSE Raised

Families == {"Dirichlet", "NormalGamma", "JointNormalGamma",
             "NormalWishart", "JointNormalWishart"}

JointFamilies == {"JointNormalGamma", "JointNormalWishart"}

SplitSufficientStatistics(family, dim, ncomp, s_stats) ==
    CASE family = "Dirichlet" -> DirichletSplit(s_stats)
      [] family = "NormalGamma" -> NormalGammaSplit(s_stats)
      [] family = "JointNormalGamma" ->
            JointNormalGammaSplit(s_stats, dim, ncomp)
      [] family = "NormalWishart" -> NormalWishartSplit(s_stats, dim)
      [] family = "JointNormalWishart" ->
            JointNormalWishartSplit(s_stats, dim, ncomp)

\* ------------------------------ the constructors' concatenation order
\* NormalGammaPrior.__init__: torch.cat of four vectors.
NormalGammaCat(g) == Cat(<<g[1], g[2], g[3], g[4]>>)

\* JointNormalGammaPrior.__init__: the two ncomp x dim groups are flattened
\* with view(-1).
JointNormalGammaCat(g) == Cat(<<g[1], Flatten(g[2]), Flatten(g[3]), g[4]>>)

\* NormalWishartPrior.__init__: the dim x dim group is flattened, the two
\* scalars become tensors of one element.
NormalWishartCat(g) == Cat(<<Flatten(g[1]), g[2], <<g[3]>>, <<g[4]>>>>)

\* JointNormalWishartPrior.__init__
JointNormalWishartCat(g) == Cat(<<Flatten(g[1]), Flatten(g[2]), g[3], <<g[4]>>>>)

Concatenate(family, g) ==
    CASE family = "Dirichlet" -> g
      [] family = "NormalGamma" -> NormalGammaCat(g)
      [] family = "JointNormalGamma" -> JointNormalGammaCat(g)
      [] family = "NormalWishart" -> NormalWishartCat(g)
      [] family = "JointNormalWishart" -> JointNormalWishartCat(g)

\* Mutant: scale * mean and scale are concatenated in the other order.
NormalGammaNatural_SwappedOrder(mean, scale, shape, rate) ==
    NormalGammaCat(<<
        [k \in DOMAIN mean |-> scale[k] * (mean[k] * mean[k]) + 2 * rate[k]],
        scale,
        [k \in DOMAIN mean |-> scale[k] * mean[k]],
        [k \in DOMAIN mean |-> 2 * shape[k] - 1] >>)

\* NormalGammaPrior.__init__: natural_hparams = torch.cat([
\*   scale * mean ** 2 + 2 * rate, scale * mean, scale, 2 * shape - 1])
NormalGammaNatural(mean, scale, shape, rate) ==
    NormalGammaCat(<<
        [k \in DOMAIN mean |-> scale[k] * (mean[k] * mean[k]) + 2 * rate[k]],
        [k \in DOMAIN mean |-> scale[k] * mean[k]],
        scale,
        [k \in DOMAIN mean |-> 2 * shape[k] - 1] >>)

\* Assignments only: construction, new vectors, the setter (with a vector of
\* the caller, or with a value read from a getter).
NextAssign ==
    \/ \E d \in DataValues : NewTensor(d)
    \/ \E i \in Insts, c \in Vectors(Dim, 1..(MaxVal + 1)) : Construct(i, c)
    \/ \E i \in Insts, v \in 1..MaxTensors : SetNaturalHparams(i, v)
    \/ \E i, j \in Insts : AssignReadBack(i, j)

Next ==
    \/ \E d \in DataValues : NewTensor(d)
    \/ \E i \in Insts, c \in Vectors(Dim, 1..(MaxVal + 1)) : Construct(i, c)
    \/ \E i \in Insts, v \in 1..MaxTensors : SetNaturalHparams(i, v)
    \/ \E i, j \in Insts : AssignReadBack(i, j)
    \/ \E i \in Insts : GetNaturalHparams(i)
    \/ \E i \in Insts : GetExpectedSufficientStatistics(i)
    \/ \E i \in Insts, part \in {"natural_hparams",
                                   "expected_sufficient_statistics"},
          k \in 1..Dim, x \in 0..MaxVal : ModifyReturned(i, part, k, x)
    \/ \E i, j \in Insts : CallKlDiv(i, j)

Spec == Init /\ [][Next]_vars

SpecAssign == Init /\ [][NextAssign]_vars

\* ----------------------------------------------- the prior is not in use
NoPrior ==
    /\ tensors = <<>>
    /\ inst = [i \in Insts |-> [constructed |-> FALSE,
                                natural_hparams |-> NoTensor,
                                expected_sufficient_statistics |-> NoTensor]]
    /\ writes = 0
    /\ last = [op |-> "none", status |-> "ok", inst |-> None,
               arg |-> None, hadGrad |-> FALSE, value |-> None]

\* ------------------------------------------------ grouping round trip
\* Group values: consecutive integers (all distinct, no matrix symmetric),
\* of either sign.
Vec(sgn, start, n) == [k \in 1..n |-> sgn * (start + k)]

Mat(sgn, start, r, c) ==
    [i \in 1..r |-> [j \in 1..c |-> sgn * (start + (i - 1) * c + j)]]

GroupsOf(family, dim, ncomp, sgn, b) ==
    CASE family = "Dirichlet" -> Vec(sgn, b, dim)
      [] family = "NormalGamma" ->
            <<Vec(sgn, b, dim), Vec(sgn, b + dim, dim),
              Vec(sgn, b + 2 * dim, dim), Vec(sgn, b + 3 * dim, dim)>>
      [] family = "JointNormalGamma" ->
            <<Vec(sgn, b, dim), Mat(sgn, b + dim, ncomp, dim),
              Mat(sgn, b + dim + ncomp * dim, ncomp, dim),
              Vec(sgn, b + dim + 2 * ncomp * dim, dim)>>
      [] family = "NormalWishart" ->
            <<Mat(sgn, b, dim, dim), Vec(sgn, b + dim * dim, dim),
              sgn * (b + dim * dim + dim + 1), sgn * (b + dim * dim + dim + 2)>>
      [] family = "JointNormalWishart" ->
            <<Mat(sgn, b, dim, dim), Mat(sgn, b + dim * dim, ncomp, dim),
              Vec(sgn, b + dim * dim + ncomp * dim, ncomp),
              sgn * (b + dim * dim + ncomp * dim + ncomp + 1)>>

\* The length of the natural-parameter vector the constructor builds.
ExpectedSize(family, dim, ncomp) ==
    Len(Concatenate(family, GroupsOf(family, dim, ncomp, 1, 0)))

Ncomps(family) == IF family \in JointFamilies THEN 1..MaxComp ELSE {1}

InitSplit ==
    /\ NoPrior
    /\ \E family \in Families, dim \in 1..MaxDim, sgn \in {1, -1},
          b \in 0..MaxBase :
         \E ncomp \in Ncomps(family) :
           \/ call = [stage |-> "groups", family |-> family, dim |-> dim,
                      ncomp |-> ncomp, fromGroups |-> TRUE,
                      groups |-> GroupsOf(family, dim, ncomp, sgn, b),
                      flat |-> <<>>, result |-> Raised]
           \/ \E n \in 0..MaxLen :
                call = [stage |-> "flat", family |-> family, dim |-> dim,
                        ncomp |-> ncomp, fromGroups |-> FALSE,
                        groups |-> <<>>,
                        flat |-> Vec(sgn, b, n), result |-> Raised]

\* The constructor concatenates the groups into the flat vector.
ConcatenateGroups ==
    /\ call.stage = "groups"
    /\ call' = [call EXCEPT !.stage = "flat",
                            !.flat = Concatenate(call.family, call.groups)]
    /\ UNCHANGED <<tensors, inst, writes, last>>

\* prior.split_sufficient_statistics(flat)
CallSplit ==
    /\ call.stage = "flat"
    /\ call' = [call EXCEPT !.stage = "split",
                            !.result = SplitSufficientStatistics(
                                call.family, call.dim, call.ncomp, call.flat)]
    /\ UNCHANGED <<tensors, inst, writes, last>>

NextSplit == ConcatenateGroups \/ CallSplit

SpecSplit == InitSplit /\ [][NextSplit]_vars

\* ------------------------------------------------- Dirichlet scenario
InitDirichlet ==
    /\ NoPrior
    /\ \E n \in 1..MaxK : \E c \in Vectors(n, 1..MaxConc) :
         call = [stage |-> "input", concentrations |-> c,
                 natural_hparams |-> <<>>, log_norm |-> LogZero]

\* DirichletPrior(concentrations) computes the natural parameters.
DirichletConstruct ==
    /\ call.stage = "input"
    /\ call' = [call EXCEPT !.stage = "constructed",
                  !.natural_hparams = DirichletNatural(call.concentrations)]
    /\ UNCHANGED <<tensors, inst, writes, last>>

\* prior.log_norm(prior.natural_hparams)
DirichletEvaluate ==
    /\ call.stage = "constructed"
    /\ call' = [call EXCEPT !.stage = "evaluated",
                  !.log_norm = DirichletLogNorm(call.natural_hparams)]
    /\ UNCHANGED <<tensors, inst, writes, last>>

NextDirichlet == DirichletConstruct \/ DirichletEvaluate

SpecDirichlet == InitDirichlet /\ [][NextDirichlet]_vars

\* ---------------------------------------------- Normal-Gamma scenario
InitNormalGamma ==
    /\ NoPrior
    /\ \E n \in 1..MaxNGDim :
         \E mean \in Vectors(n, (0 - MaxNG)..MaxNG),
            scale \in Vectors(n, 1..2), shape \in Vectors(n, 1..2),
            rate \in Vectors(n, 1..2) :
           call = [stage |-> "input", mean |-> mean, scale |-> scale,
                   shape |-> shape, rate |-> rate, natural_hparams |-> <<>>]

\* NormalGammaPrior(mean, scale, shape, rate) computes the natural parameters.
NormalGammaConstruct ==
    /\ call.stage = "input"
    /\ call' = [call EXCEPT !.stage = "constructed",
                  !.natural_hparams = NormalGammaNatural(
                      call.mean, call.scale, call.shape, call.rate)]
    /\ UNCHANGED <<tensors, inst, writes, last>>

NextNormalGamma == NormalGammaConstruct

SpecNormalGamma == InitNormalGamma /\ [][NextNormalGamma]_vars

\* ------------------------------------------------------------ _logdet
\* Gradient entries are halved by each correction; they are kept as integers
\* in units of 1 / HalfUnit, so that every halving is exact.
RECURSIVE Pow2(_)
Pow2(n) == IF n <= 0 THEN 1 ELSE 2 * Pow2(n - 1)

HalfUnit == Pow2(MaxCalls)

\* Mutant: the transpose is missing, .5 * (grad + grad).
LogdetHook_NoTranspose(grad) ==
    [i \in DOMAIN grad |-> [j \in DOMAIN grad |->
        (grad[i][j] + grad[i][j]) \div 2]]

\* The hook _logdet registers: lambda grad: .5 * (grad + grad.t())
LogdetHook(grad) ==
    [i \in DOMAIN grad |-> [j \in DOMAIN grad |->
        (grad[i][j] + grad[j][i]) \div 2]]

\* The hooks registered on a tensor run in the order of registration, each on
\* what the one before returned.
RECURSIVE RunHooks(_, _)
RunHooks(n, grad) == IF n <= 0 THEN grad ELSE RunHooks(n - 1, LogdetHook(grad))

\* Determinant, by expansion along the first row.
Minor(m, c) ==
    [i \in 1..(Len(m) - 1) |-> [j \in 1..(Len(m) - 1) |->
        m[i + 1][IF j < c THEN j ELSE j + 1]]]

RECURSIVE Det(_)
Det(m) ==
    IF Len(m) = 0 THEN 1
    ELSE SumSeq([c \in 1..Len(m) |->
            (IF c % 2 = 1 THEN 1 ELSE -1) * m[1][c] * Det(Minor(m, c))])

\* torch.potrf(mat) reads the upper triangle of mat and raises unless the
\* symmetric matrix with that triangle is positive definite (every leading
\* principal minor positive).
UpperSymmetric(m) ==
    [i \in 1..Len(m) |-> [j \in 1..Len(m) |->
        IF i <= j THEN m[i][j] ELSE m[j][i]]]

Leading(m, k) == [i \in 1..k |-> [j \in 1..k |-> m[i][j]]]

PositiveDefinite(m) == \A k \in 1..Len(m) : Det(Leading(m, k)) > 0

\* _logdet(mat): the hook is registered when mat.requires_grad, then
\* 2 * log(diag(potrf(mat))).sum() is returned: ln of the determinant, kept as
\* the determinant itself.  hooks is the number of hooks mat carries.
Logdet(mat, requires_grad, hooks) ==
    LET sym == UpperSymmetric(mat)
    IN  [hooks  |-> IF requires_grad THEN hooks + 1 ELSE hooks,
         status |-> IF PositiveDefinite(sym) THEN "ok" ELSE "RuntimeError",
         ln_of  |-> IF PositiveDefinite(sym) THEN Det(sym) ELSE 0]

\* Matrices handed to _logdet: d on the diagonal, o elsewhere.
LogdetMatrices(n) ==
    {[i \in 1..n |-> [j \in 1..n |-> IF i = j THEN d ELSE o]] :
        d \in 1..2, o \in 0..1}

InitLogdet ==
    /\ NoPrior
    /\ \E n \in 1..MaxN :
         \E mat \in LogdetMatrices(n), rg \in BOOLEAN,
            g \in [1..n -> [1..n -> 0..MaxG]] :
           call = [stage |-> "ready", mat |-> mat, requires_grad |-> rg,
                   hooks |-> 0, calls |-> 0, status |-> "ok", ln_of |-> 0,
                   incoming |-> g, delivered |-> <<>>]

\* _logdet(mat) is called (once more) on the same matrix.
CallLogdet ==
    /\ call.stage \in {"ready", "called"}
    /\ call.calls < MaxCalls
    /\ LET r == Logdet(call.mat, call.requires_grad, call.hooks)
       IN  call' = [call EXCEPT !.stage = "called", !.calls = @ + 1,
                                !.hooks = r.hooks, !.status = r.status,
                                !.ln_of = r.ln_of]
    /\ UNCHANGED <<tensors, inst, writes, last>>

\* Back-propagation reaches the matrix with the gradient `incoming`: the
\* hooks turn it into the gradient delivered for the matrix.
LogdetBackward ==
    /\ call.stage = "called"
    /\ call.status = "ok"
    /\ call.requires_grad
    /\ call' = [call EXCEPT !.stage = "delivered",
                  !.delivered = RunHooks(call.hooks,
                      [i \in DOMAIN call.incoming |->
                          [j \in DOMAIN call.incoming |->
                              HalfUnit * call.incoming[i][j]]])]
    /\ UNCHANGED <<tensors, inst, writes, last>>

NextLogdet == CallLogdet \/ LogdetBackward

SpecLogdet == InitLogdet /\ [][NextLogdet]_vars

\* ================================================================ claims

\* C1: after construction and after any sequence of assignments to
\* natural_hparams, expected_sufficient_statistics of every instance is the
\* gradient of log_norm at the vector natural_hparams reports.
C1_EssIsGradientOfCurrent ==
    \A i \in Insts :
        inst[i].constructed =>
            ExpectedSufficientStatistics(i) = DirichletGrad(NaturalHparams(i))

\* C2: kl_div(p, p) returns the number 0, not an error, for every constructed
\* density p.
C2_SelfDivergenceIsZero ==
    (last.op = "kl_div" /\ last.inst = last.arg) =>
        (last.status = "ok" /\ last.value = Real(LogZero, 0))

\* C3: kl_div(model1, model2) returns
\* A(eta2) - A(eta1) - <T>_1 . (eta2 - eta1).
C3_KlIsBregman ==
    last.op = "kl_div" =>
        /\ last.status = "ok"
        /\ last.value =
             Real(LogAdd(DirichletLogNorm(NaturalHparams(last.arg)),
                         LogNeg(DirichletLogNorm(NaturalHparams(last.inst)))),
                  0 - Dot(ExpectedSufficientStatistics(last.inst),
                          [k \in 1..Dim |->
                              NaturalHparams(last.arg)[k]
                              - NaturalHparams(last.inst)[k]]))

\* C4: for every family, every dim and every ncomp, splitting the flat vector
\* the constructor's concatenation builds returns the original groups: same
\* order, same elements, same shapes.
C4_SplitInvertsConcatenation ==
    (call.stage = "split" /\ call.fromGroups) =>
        (call.result.ok /\ call.result.groups = call.groups)

C4_Witness ==
    /\ call.stage = "split"
    /\ call.fromGroups
    /\ call.family = "JointNormalWishart"
    /\ call.dim = 2
    /\ call.ncomp = 2
    /\ call.result.ok
    /\ Len(call.flat) = 11

\* C5: split_sufficient_statistics raises on every flat vector whose length
\* is not the length of the family's natural-parameter vector.
C5_WrongLengthRaises ==
    (call.stage = "split"
        /\ Len(call.flat) # ExpectedSize(call.family, call.dim, call.ncomp))
    => ~call.result.ok

\* C6: assigning a vector that already carries a gradient completes without
\* error, and the stored expected_sufficient_statistics is the gradient of
\* log_norm at that vector alone.
C6_ReassignmentSucceeds ==
    (last.op = "set" /\ last.hadGrad) =>
        /\ last.status = "ok"
        /\ inst[last.inst].natural_hparams = last.arg
        /\ ExpectedSufficientStatistics(last.inst)
             = DirichletGrad(tensors[last.arg].data)

\* C7: an assignment to q.natural_hparams, successful or failed, leaves what
\* every other instance p reports for natural_hparams and
\* expected_sufficient_statistics unchanged.
C7_OtherInstanceUnchanged ==
    [][\A i \in Insts :
          (last'.op = "set" /\ last'.inst # i /\ inst[i].constructed)
              => Reported(i)' = Reported(i)]_vars

\* C8: reading the getters does not change the instance, and modifying a
\* returned value in place does not change what any instance reports.
C8_GettersAreReadOnly ==
    [][(last'.op \in {"get_natural_hparams",
                      "get_expected_sufficient_statistics",
                      "modify_returned"})
          => \A i \in Insts :
                inst[i].constructed =>
                    (inst'[i] = inst[i] /\ Reported(i)' = Reported(i))]_vars

\* C9 as stated: the natural parameters are alpha - 1 and log_norm there is
\* lgamma(sum alpha) - sum lgamma(alpha_i); for alpha = [2, 3, 5] that is
\* [1, 2, 4] and lgamma(8) - lgamma(2) - lgamma(3) - lgamma(5).
C9_LogNormAsStated ==
    call.stage = "evaluated" =>
        /\ call.natural_hparams =
             [k \in DOMAIN call.concentrations |-> call.concentrations[k] - 1]
        /\ call.log_norm =
             LogAdd(Lgamma(SumSeq(call.concentrations)),
                    LogNeg(LogSum([k \in DOMAIN call.concentrations |->
                                      Lgamma(call.concentrations[k])])))
        /\ call.concentrations = <<2, 3, 5>> =>
             /\ call.natural_hparams = <<1, 2, 4>>
             /\ call.log_norm =
                  LogAdd(Lgamma(8),
                         LogNeg(LogAdd(Lgamma(2),
                                       LogAdd(Lgamma(3), Lgamma(5)))))

\* C9 amended: the natural parameters are alpha - 1 and log_norm there is
\* sum lgamma(alpha_i) - lgamma(sum alpha); for alpha = [2, 3, 5] that is
\* [1, 2, 4] and lgamma(2) + lgamma(3) + lgamma(5) - lgamma(10).
C9_LogNormAmended ==
    call.stage = "evaluated" =>
        /\ call.natural_hparams =
             [k \in DOMAIN call.concentrations |-> call.concentrations[k] - 1]
        /\ call.log_norm =
             LogAdd(LogSum([k \in DOMAIN call.concentrations |->
                               Lgamma(call.concentrations[k])]),
                    LogNeg(Lgamma(SumSeq(call.concentrations))))
        /\ call.concentrations = <<2, 3, 5>> =>
             /\ call.natural_hparams = <<1, 2, 4>>
             /\ call.log_norm =
                  LogAdd(LogAdd(Lgamma(2), LogAdd(Lgamma(3), Lgamma(5))),
                         LogNeg(Lgamma(10)))

C9_Witness ==
    /\ call.stage = "evaluated"
    /\ call.concentrations = <<2, 3, 5>>
    /\ call.log_norm # LogZero

\* C10: the Normal-Gamma natural vector is the concatenation, in this order,
\* of scale*mean^2 + 2*rate, scale*mean, scale and 2*shape - 1, each of
\* length D; for mean=0, scale=1, shape=1, rate=1 it is [2, 0, 1, 1].
C10_NormalGammaNatural ==
    call.stage = "constructed" =>
        LET D == Len(call.mean)
            eta == call.natural_hparams
        IN  /\ Len(eta) = 4 * D
            /\ \A k \in 1..D :
                 /\ eta[k] = call.scale[k] * call.mean[k] * call.mean[k]
                             + 2 * call.rate[k]
                 /\ eta[D + k] = call.scale[k] * call.mean[k]
                 /\ eta[2 * D + k] = call.scale[k]
                 /\ eta[3 * D + k] = 2 * call.shape[k] - 1
            /\ (call.mean = <<0>> /\ call.scale = <<1>> /\ call.shape = <<1>>
                    /\ call.rate = <<1>>) => eta = <<2, 0, 1, 1>>

C10_Witness ==
    /\ call.stage = "constructed"
    /\ call.mean = <<0>>
    /\ call.scale = <<1>>
    /\ call.shape = <<1>>
    /\ call.rate = <<1>>
    /\ call.natural_hparams = <<2, 0, 1, 1>>

\* C11: _logdet registers its correction exactly when the matrix requires a
\* gradient; the gradient delivered for the matrix is (G + G^T) / 2 for the
\* incoming gradient G, hence symmetric, also when _logdet was called more
\* than once on the same matrix and the corrections are stacked.
C11_LogdetGradientSymmetrized ==
    /\ call.stage \in {"called", "delivered"} =>
         call.hooks = (IF call.requires_grad THEN call.calls ELSE 0)
    /\ call.stage = "delivered" =>
         \A i, j \in DOMAIN call.incoming :
            /\ call.delivered[i][j] = call.delivered[j][i]
            /\ 2 * call.delivered[i][j] =
                 HalfUnit * (call.incoming[i][j] + call.incoming[j][i])

C11_Witness ==
    /\ call.stage = "delivered"
    /\ call.calls = 2
    /\ call.hooks = 2
    /\ Len(call.incoming) = 2
    /\ call.incoming[1][2] # call.incoming[2][1]
    /\ (call.incoming[1][2] + call.incoming[2][1]) % 2 = 1

\* C12: a failed assignment to natural_hparams leaves what the instance
\* reports for natural_hparams and expected_sufficient_statistics exactly as
\* before, whatever vector was supplied.
C12_FailedAssignmentChangesNothing ==
    [][\A i \in Insts :
          (last'.op \in {"set", "set_read_back"} /\ last'.inst = i
              /\ last'.status # "ok")
          => Reported(i)' = Reported(i)]_vars

\* C13 as stated: assigning to natural_hparams the value read from the same
\* instance succeeds and leaves both reported values unchanged.
C13_ReadBackSucceeds ==
    [][\A i \in Insts :
          (last'.op = "set_read_back" /\ last'.inst = i /\ last'.arg = i)
          => (last'.status = "ok" /\ Reported(i)' = Reported(i))]_vars

\* C13 amended: assigning to natural_hparams the value read from a getter
\* raises RuntimeError at the back-propagation (the value read does not
\* require a gradient) and changes neither the instances nor the tensors.
C13_ReadBackRaises ==
    [][last'.op = "set_read_back"
          => (last'.status = "RuntimeError"
              /\ inst' = inst
              /\ tensors' = tensors)]_vars

C13_Witness ==
    /\ last.op = "set_read_back"
    /\ last.inst = last.arg
    /\ last.status = "RuntimeError"
    /\ inst[last.inst].constructed

====
